---- MODULE Spec2Model ----
(***************************************************************************)
(* upctl: synthesis of the transient compose manifest, reconciliation of   *)
(* configured services against the compose engine's live status (ps), the  *)
(* life cycle of one command invocation (up, down, install, logs,          *)
(* import-db, ps) including the process signal handler, and the port       *)
(* diagnostics of the doctor command.                                      *)
(***************************************************************************)
EXTENDS Integers, Sequences, FiniteSets, TLC

VARIABLES
    pc,                  \* position of the process: "main", "ready", "holding", "exited"
    op,                  \* the command being run ("none" before dispatch)
    args,                \* its positional arguments
    allFlag,             \* its --all flag
    exitCode,            \* process exit status (-1 while running)
    cmdErr,              \* the command's RunE returned an error
    progress,            \* the global spinner: "nil", "idle", "active", "stopped"
    config,              \* the configuration document as viper holds it
    dockerComposeConfig, \* the package-level decoded struct
    files,               \* temporary files present on disk
    fileContent,         \* what was written to each temporary file
    tempComposePath,     \* path returned by createTempComposeFile ("" if none)
    fsFault,             \* environment: which file-system call fails during synthesis
    availableServicesFromConfig, \* ps: the configured service names
    engineCalls,         \* argument vectors handed to the compose engine
    dockerStdout,        \* what `docker compose ps --format json` wrote to stdout, as lines
    psOutputStr,         \* the string CaptureCommand returned, as lines
    psErr,               \* whether that invocation failed
    out,                 \* notes and warnings printed
    report,              \* rows of the combined service status table
    hostInUse,           \* environment: listen addresses on which a bind fails
    findings,            \* doctor: the lines of the port analysis
    probes,              \* doctor: the listen probes made, in order
    execPc,              \* ExecuteCommand: "idle", "waiting", "joining-stdout",
                         \* "joining-stderr", "returned"
    execErr,             \* ExecuteCommand: it returned an error
    child,               \* the subprocess: "none", "running", "zero", "nonzero"
    readers,             \* the reader goroutine of each pipe: "none", "scanning", "done"
    written,             \* lines the subprocess wrote to each pipe
    consumed             \* lines the reader of each pipe printed

vars == <<pc, op, args, allFlag, exitCode, cmdErr, progress, config,
          dockerComposeConfig, files, fileContent, tempComposePath,
          fsFault, availableServicesFromConfig, engineCalls, dockerStdout,
          psOutputStr, psErr, out, report, hostInUse, findings, probes,
          execPc, execErr, child, readers, written, consumed>>

\* the variables of the doctor command
doctorVars == <<hostInUse, findings, probes>>

\* the variables of one ExecuteCommand call
execVars == <<execPc, execErr, child, readers, written, consumed>>

----------------------------------------------------------------------------
(* Bounds *)

MaxArgs == 2
MaxLines == 3
MaxEntries == 3
MaxWrites == 2

----------------------------------------------------------------------------
(* Strings.  Service names are strings; sort.Strings orders them by their  *)
(* bytes, so each name of the universe is given with its bytes.            *)

ServiceNames == {"api", "apiv2", "db"}

Bytes(s) ==
    CASE s = "api"   -> <<97, 112, 105>>
      [] s = "apiv2" -> <<97, 112, 105, 118, 50>>
      [] s = "db"    -> <<100, 98>>
      [] OTHER       -> <<>>

RECURSIVE BytesLess(_, _)
BytesLess(a, b) ==
    IF a = <<>> THEN b # <<>>
    ELSE IF b = <<>> THEN FALSE
    ELSE IF Head(a) # Head(b) THEN Head(a) < Head(b)
    ELSE BytesLess(Tail(a), Tail(b))

\* Go's string comparison s < t
StringLess(s, t) == BytesLess(Bytes(s), Bytes(t))

RECURSIVE Insert(_, _)
Insert(x, s) ==
    IF s = <<>> THEN <<x>>
    ELSE IF StringLess(Head(s), x) THEN <<Head(s)>> \o Insert(x, Tail(s))
    ELSE <<x>> \o s

\* a sort that leaves its argument as it is
SortStringsKeepOrder(s) == s

RECURSIVE SortStrings(_)
SortStrings(s) ==
    IF s = <<>> THEN <<>> ELSE Insert(Head(s), SortStrings(Tail(s)))

SeqsUpTo(S, n) == UNION {[1..k -> S] : k \in 0..n}

Range(s) == {s[i] : i \in DOMAIN s}

\* every order in which a Go map range may visit the keys
Orders(S) == {s \in [1..Cardinality(S) -> S] : Range(s) = S}

----------------------------------------------------------------------------
(* Configuration (viper) and the decoded struct                            *)

\* DockerComposeConfig's fields, in declaration order
StructFields == <<"services", "volumes", "networks">>

\* the yaml struct tags of DockerComposeConfig carry no omitempty option
OmitEmpty(f) == FALSE

\* a top-level key of the document: absent, a mapping, or some other value
AbsentKey == [set |-> FALSE, isMap |-> FALSE, val |-> <<>>]
ScalarKey == [set |-> TRUE, isMap |-> FALSE, val |-> <<>>]
MapKey(m) == [set |-> TRUE, isMap |-> TRUE, val |-> m]

\* Go maps: nil or a map
NilMap == [isNil |-> TRUE, m |-> <<>>]
GoMap(m) == [isNil |-> FALSE, m |-> m]

ZeroConfig == [services |-> NilMap, volumes |-> NilMap, networks |-> NilMap]

\* viper.IsSet(key)
IsSet(v, key) == v[key].set

\* mapstructure decoding of one field: a mapping is merged into the target
\* map, an absent key leaves the field alone, any other value is an error
\* and leaves the field alone
Merge(old, new) ==
    [k \in DOMAIN old \cup DOMAIN new |-> IF k \in DOMAIN new THEN new[k] ELSE old[k]]

DecodeField(v, key, field) ==
    IF v[key].set /\ v[key].isMap
    THEN GoMap(Merge(field.m, v[key].val))
    ELSE field

\* a decoding that reports no error
UnmarshalReportingNoError(v, c) ==
    [cfg |-> [f \in DOMAIN c |-> DecodeField(v, f, c[f])], err |-> FALSE]

\* viper.Unmarshal(&dockerComposeConfig): the struct afterwards and the error
Unmarshal(v, c) ==
    [cfg |-> [f \in DOMAIN c |-> DecodeField(v, f, c[f])],
     err |-> \E f \in DOMAIN c : v[f].set /\ ~v[f].isMap]

\* yaml.Marshal of the struct: one top-level key per field unless the field
\* is tagged omitempty and empty; a nil map is written as the empty mapping
MarshalYAML(c) ==
    [f \in {StructFields[i] : i \in { j \in 1..Len(StructFields) :
                ~(OmitEmpty(StructFields[j]) /\ DOMAIN c[StructFields[j]].m = {}) }}
        |-> c[f].m]

----------------------------------------------------------------------------
(* createTempComposeFile                                                   *)

TempPaths == {"docker-compose-1.yml", "docker-compose-2.yml"}

NoContent == [written |-> FALSE, closed |-> FALSE, yaml |-> <<>>]

\* lines 419-449: the struct that is serialized
SynthesisConfig(v, c) ==
    LET u  == Unmarshal(v, c)
        c1 == IF u.err
              THEN [f \in DOMAIN u.cfg |->
                       IF u.cfg[f].isNil THEN GoMap(<<>>) ELSE u.cfg[f]]
              ELSE u.cfg
    IN  [f \in DOMAIN c1 |->
            IF IsSet(v, f) /\ v[f].isMap THEN GoMap(v[f].val) ELSE c1[f]]

\* lines 426-449: one warning per key that is set but is not a mapping
SynthesisWarnings(v) ==
    LET W(f) == IF IsSet(v, f) /\ ~v[f].isMap
                THEN <<[kind |-> "warn_not_map", name |-> f, idx |-> 0]>>
                ELSE <<>>
    IN  W("services") \o W("volumes") \o W("networks")

\* a synthesis that serializes the struct as it was when the call began
createTempComposeFileStale(v, c, fs, content, fault, p) ==
    LET c2   == SynthesisConfig(v, c)
        yaml == MarshalYAML(c)
    IN  IF fault = "create"
        THEN [path |-> "", err |-> TRUE, cfg |-> c2, files |-> fs, content |-> content,
              warn |-> SynthesisWarnings(v)]
        ELSE IF fault = "marshal"
        THEN [path |-> "", err |-> TRUE, cfg |-> c2, files |-> fs \cup {p},
              content |-> [content EXCEPT ![p] = [written |-> FALSE, closed |-> TRUE, yaml |-> <<>>]],
              warn |-> SynthesisWarnings(v)]
        ELSE IF fault = "write"
        THEN [path |-> "", err |-> TRUE, cfg |-> c2, files |-> fs \cup {p},
              content |-> [content EXCEPT ![p] = [written |-> FALSE, closed |-> TRUE, yaml |-> <<>>]],
              warn |-> SynthesisWarnings(v)]
        ELSE IF fault = "close"
        THEN [path |-> p, err |-> FALSE, cfg |-> c2, files |-> fs \cup {p},
              content |-> [content EXCEPT ![p] = [written |-> TRUE, closed |-> FALSE, yaml |-> yaml]],
              warn |-> SynthesisWarnings(v) \o
                       <<[kind |-> "warn_close", name |-> p, idx |-> 0]>>]
        ELSE [path |-> p, err |-> FALSE, cfg |-> c2, files |-> fs \cup {p},
              content |-> [content EXCEPT ![p] = [written |-> TRUE, closed |-> TRUE, yaml |-> yaml]],
              warn |-> SynthesisWarnings(v)]

\* the call under file-system fault `fault`, with temporary file name p:
\* the returned path and error, and the disk afterwards
createTempComposeFile(v, c, fs, content, fault, p) ==
    LET c2   == SynthesisConfig(v, c)
        yaml == MarshalYAML(c2)
    IN  IF fault = "create"
        THEN [path |-> "", err |-> TRUE, cfg |-> c2, files |-> fs, content |-> content,
              warn |-> SynthesisWarnings(v)]
        ELSE IF fault = "marshal"
        THEN [path |-> "", err |-> TRUE, cfg |-> c2, files |-> fs \cup {p},
              content |-> [content EXCEPT ![p] = [written |-> FALSE, closed |-> TRUE, yaml |-> <<>>]],
              warn |-> SynthesisWarnings(v)]
        ELSE IF fault = "write"
        THEN [path |-> "", err |-> TRUE, cfg |-> c2, files |-> fs \cup {p},
              content |-> [content EXCEPT ![p] = [written |-> FALSE, closed |-> TRUE, yaml |-> <<>>]],
              warn |-> SynthesisWarnings(v)]
        ELSE IF fault = "close"
        THEN [path |-> p, err |-> FALSE, cfg |-> c2, files |-> fs \cup {p},
              content |-> [content EXCEPT ![p] = [written |-> TRUE, closed |-> FALSE, yaml |-> yaml]],
              warn |-> SynthesisWarnings(v) \o
                       <<[kind |-> "warn_close", name |-> p, idx |-> 0]>>]
        ELSE [path |-> p, err |-> FALSE, cfg |-> c2, files |-> fs \cup {p},
              content |-> [content EXCEPT ![p] = [written |-> TRUE, closed |-> TRUE, yaml |-> yaml]],
              warn |-> SynthesisWarnings(v)]

----------------------------------------------------------------------------
(* One command invocation                                                  *)

Msg(k, n, i) == [kind |-> k, name |-> n, idx |-> i]

\* a validation that does not look at the names when --all is given
ValidAllOrOneIgnoringNames(a, all) == IF all THEN TRUE ELSE Len(a) = 1

\* upCmd, downCmd, logsCmd RunE: --all excludes names, otherwise exactly one
ValidAllOrOne(a, all) == IF all THEN Len(a) = 0 ELSE Len(a) = 1

\* the handler returns: the deferred os.Remove and progress.Stop run, then
\* main returns
ReturnFromHandler(spins) ==
    /\ files' = files \ {tempComposePath}
    /\ progress' = IF spins THEN "stopped" ELSE progress
    /\ pc' = "exited"
    /\ exitCode' = 0

\* os.Exit(code): the process ends at once, deferred calls do not run
OsExit(code) ==
    /\ pc' = "exited"
    /\ exitCode' = code

\* initConfig, run by cobra before the command's Run
initConfig ==
    /\ pc = "main"
    /\ UNCHANGED <<doctorVars, execVars>>
    /\ IF config.readable
       THEN /\ pc' = "ready"
            /\ progress' = "idle"
            /\ UNCHANGED exitCode
       ELSE /\ OsExit(1)
            /\ UNCHANGED progress
    /\ UNCHANGED <<op, args, allFlag, cmdErr, config, dockerComposeConfig, files,
                   fileContent, tempComposePath, fsFault,
                   availableServicesFromConfig, engineCalls, dockerStdout,
                   psOutputStr, psErr, out, report>>

\* RunDockerComposeInstall, lines 282-293: the configuration decodes and a
\* named service is configured
InstallCheck(a, c) ==
    /\ ~Unmarshal(config, c).err
    /\ Len(a) > 0 => a[1] \in DOMAIN c.services.m

\* the common opening of the handlers: progress.Start, createTempComposeFile,
\* os.Exit(1) on its error, defer os.Remove.  `checks` says whether the
\* handler tests the configuration between synthesis and the engine call
\* (install only), `notes` is what the handler printed before synthesis.
Acquire(o, a, all, spins, checks, notes) ==
    /\ pc = "ready"
    /\ UNCHANGED <<doctorVars, execVars>>
    /\ op' = o
    /\ args' = a
    /\ allFlag' = all
    /\ progress' = IF spins THEN "active" ELSE progress
    /\ \E p \in TempPaths \ files :
         LET r == createTempComposeFile(config, dockerComposeConfig, files,
                                        fileContent, fsFault, p)
         IN  /\ dockerComposeConfig' = r.cfg
             /\ files' = r.files
             /\ fileContent' = r.content
             /\ IF r.err
                THEN /\ out' = out \o notes \o r.warn \o <<Msg("error_temp_file", o, 0)>>
                     /\ tempComposePath' = ""
                     /\ OsExit(1)
                ELSE /\ tempComposePath' = r.path
                     /\ IF checks => InstallCheck(a, r.cfg)
                        THEN /\ out' = out \o notes \o r.warn
                             /\ pc' = "holding"
                             /\ UNCHANGED exitCode
                        ELSE /\ out' = out \o notes \o r.warn
                                           \o <<Msg("error_precondition", o, 0)>>
                             /\ OsExit(1)
    /\ UNCHANGED <<cmdErr, config, fsFault, engineCalls, dockerStdout,
                   psOutputStr, psErr, report>>

\* the handlers other than ps do not collect the configured names
AcquireOnly(o, a, all, spins, checks) ==
    /\ Acquire(o, a, all, spins, checks, <<>>)
    /\ UNCHANGED availableServicesFromConfig

\* RunE rejected the arguments: the handler is not entered, cobra reports the
\* error and Execute returns it to main, which discards it
RejectArgs(o, a, all) ==
    /\ pc = "ready"
    /\ UNCHANGED <<doctorVars, execVars>>
    /\ op' = o
    /\ args' = a
    /\ allFlag' = all
    /\ cmdErr' = TRUE
    /\ pc' = "exited"
    /\ exitCode' = 0
    /\ UNCHANGED <<progress, config, dockerComposeConfig, files, fileContent,
                   tempComposePath, fsFault, availableServicesFromConfig,
                   engineCalls, dockerStdout, psOutputStr, psErr, out, report>>

\* an argument vector that never names a service
ComposeArgsWithoutService(sub) == <<"compose", "-f", tempComposePath>> \o sub

\* the argument vector of up, down and logs
ComposeArgs(sub) ==
    <<"compose", "-f", tempComposePath>> \o sub \o
    (IF ~allFlag /\ Len(args) > 0 THEN <<args[1]>> ELSE <<>>)

\* a handler that reports the engine's failure and carries on to its end
EngineIgnoringFailure(o, argv, spins) ==
    /\ pc = "holding"
    /\ UNCHANGED <<doctorVars, execVars>>
    /\ op = o
    /\ engineCalls' = Append(engineCalls, <<"docker">> \o argv)
    /\ \E fails \in BOOLEAN :
         out' = out \o (IF fails THEN <<Msg("error_engine", o, 0)>> ELSE <<>>)
                    \o (IF o = "logs" THEN <<>> ELSE <<Msg("success", o, 0)>>)
    /\ ReturnFromHandler(spins)
    /\ UNCHANGED <<op, args, allFlag, cmdErr, config, dockerComposeConfig,
                   fileContent, tempComposePath, fsFault,
                   availableServicesFromConfig, dockerStdout, psOutputStr, psErr,
                   report>>

\* ExecuteCommand("docker", argv...), then os.Exit(1) on failure or return
\* (logs prints nothing on success)
Engine(o, argv, spins) ==
    /\ pc = "holding"
    /\ UNCHANGED <<doctorVars, execVars>>
    /\ op = o
    /\ engineCalls' = Append(engineCalls, <<"docker">> \o argv)
    /\ \E fails \in BOOLEAN :
         IF fails
         THEN /\ out' = Append(out, Msg("error_engine", o, 0))
              /\ OsExit(1)
              /\ UNCHANGED <<files, progress>>
         ELSE /\ out' = (IF o = "logs" THEN out ELSE Append(out, Msg("success", o, 0)))
              /\ ReturnFromHandler(spins)
    /\ UNCHANGED <<op, args, allFlag, cmdErr, config, dockerComposeConfig,
                   fileContent, tempComposePath, fsFault,
                   availableServicesFromConfig, dockerStdout, psOutputStr, psErr,
                   report>>

\* the names a command line may carry, and the argument lists
ArgNames == {"api", "db"}

ArgLists == SeqsUpTo(ArgNames, MaxArgs)

RunDockerComposeUp ==
    \E a \in ArgLists, all \in BOOLEAN :
        IF ValidAllOrOne(a, all)
        THEN AcquireOnly("up", a, all, TRUE, FALSE)
        ELSE RejectArgs("up", a, all)

RunDockerComposeUpEngine == Engine("up", ComposeArgs(<<"up", "-d">>), TRUE)

RunDockerComposeDown ==
    \E a \in ArgLists, all \in BOOLEAN :
        IF ValidAllOrOne(a, all)
        THEN AcquireOnly("down", a, all, TRUE, FALSE)
        ELSE RejectArgs("down", a, all)

RunDockerComposeDownEngine == Engine("down", ComposeArgs(<<"down">>), TRUE)

RunDockerComposeLogs ==
    \E a \in ArgLists, all \in BOOLEAN :
        IF ValidAllOrOne(a, all)
        THEN AcquireOnly("logs", a, all, FALSE, FALSE)
        ELSE RejectArgs("logs", a, all)

RunDockerComposeLogsEngine == Engine("logs", ComposeArgs(<<"logs", "--follow">>), FALSE)

RunDockerComposeInstall ==
    \E a \in ArgLists, all \in BOOLEAN :
        IF Len(a) > 1
        THEN RejectArgs("install", a, all)         \* cobra.MaximumNArgs(1)
        ELSE IF ~(Len(a) > 0 \/ all)
        THEN /\ pc = "ready"
             /\ UNCHANGED <<doctorVars, execVars>>
             /\ op' = "install"
             /\ args' = a
             /\ allFlag' = all
             /\ progress' = "active"
             /\ out' = Append(out, Msg("error_no_target", "install", 0))
             /\ OsExit(1)
             /\ UNCHANGED <<cmdErr, config, dockerComposeConfig, files,
                            fileContent, tempComposePath, fsFault,
                            availableServicesFromConfig, engineCalls,
                            dockerStdout, psOutputStr, psErr, report>>
        ELSE AcquireOnly("install", a, all, TRUE, TRUE)

RunDockerComposeInstallEngine ==
    Engine("install",
           <<"compose", "-f", tempComposePath, "up", "-d">> \o
               (IF Len(args) > 0 THEN <<args[1]>> ELSE <<>>),
           TRUE)

\* RunDockerImportDB: the steps after synthesis, any of which may fail.
\* Stage 0 is the run in which none fails.
ImportStages == 0..9

\* exit status when the step fails (-1: the failure is only printed)
ImportExitCode(stage) ==
    CASE stage \in {1, 2, 6, 7, 8} -> 1     \* up mysql, tsh lookup, container id, cp, import
      [] stage \in {3, 4, 5}       -> 2     \* teleport login, aws login, s3 download
      [] OTHER                     -> -1    \* 9: cleanup inside the container

RunDockerImportDB == AcquireOnly("import-db", <<>>, FALSE, TRUE, FALSE)

RunDockerImportDBSteps ==
    /\ pc = "holding"
    /\ UNCHANGED <<doctorVars, execVars>>
    /\ op = "import-db"
    /\ \E stage \in ImportStages :
         /\ engineCalls' =
                engineCalls \o
                <<<<"docker", "compose", "-f", tempComposePath, "up", "-d", "mysql">>>> \o
                (IF stage = 0 \/ stage >= 6
                 THEN <<<<"docker", "compose", "-f", tempComposePath, "ps", "-q", "mysql">>>>
                 ELSE <<>>)
         /\ IF ImportExitCode(stage) > 0
            THEN /\ out' = Append(out, Msg("error_engine", "import-db", stage))
                 /\ OsExit(ImportExitCode(stage))
                 /\ UNCHANGED <<files, progress>>
            ELSE /\ out' = out \o
                           (IF stage = 9
                            THEN <<Msg("error_cleanup", "import-db", stage)>>
                            ELSE <<>>) \o
                           <<Msg("success", "import-db", 0)>>
                 /\ ReturnFromHandler(TRUE)
    /\ UNCHANGED <<op, args, allFlag, cmdErr, config, dockerComposeConfig,
                   fileContent, tempComposePath, fsFault,
                   availableServicesFromConfig, dockerStdout, psOutputStr, psErr,
                   report>>

\* catchSignal: SIGINT or SIGTERM arrives while the process runs.
\* cmd.StopProgress dereferences the spinner, which is nil until initConfig
\* has run; os.Exit(0) follows.
catchSignal ==
    /\ pc # "exited"
    /\ UNCHANGED <<doctorVars, execVars>>
    /\ IF progress = "nil"
       THEN /\ OsExit(2)                       \* nil pointer dereference
            /\ UNCHANGED progress
       ELSE /\ progress' = "stopped"
            /\ OsExit(0)
    /\ out' = Append(out, Msg("signal", "", 0))
    /\ UNCHANGED <<op, args, allFlag, cmdErr, config, dockerComposeConfig, files,
                   fileContent, tempComposePath, fsFault,
                   availableServicesFromConfig, engineCalls, dockerStdout,
                   psOutputStr, psErr, report>>

----------------------------------------------------------------------------
(* ps: reconciliation of configured services against the live status       *)

\* One line of the engine's standard output: a JSON object decoded into
\* DockerPsJSONEntry (Service and State fields), text json.Unmarshal rejects,
\* or a line that is blank after TrimSpace.  Every line is one the scanner
\* delivers as a token, that is, no longer than bufio.MaxScanTokenSize.
FeedServices == ServiceNames \cup {""}
\* services for which the feed may also carry a record of an exited instance
ExitedServices == {"api"}

JSONLine(svc, st) == [kind |-> "json", Service |-> svc, State |-> st]
GarbageLine == [kind |-> "garbage", Service |-> "", State |-> ""]
BlankLine == [kind |-> "blank", Service |-> "", State |-> ""]

Lines == {JSONLine(svc, "running") : svc \in FeedServices}
            \cup {JSONLine(svc, "exited") : svc \in ExitedServices}
            \cup {GarbageLine, BlankLine}

Feeds == SeqsUpTo(Lines, MaxLines)

\* a capture that discards the output of a failed subprocess
CaptureCommandDropOnError(stdout, failed) ==
    [stdout |-> IF failed THEN <<>> ELSE stdout, err |-> failed]

\* CaptureCommand: the subprocess's standard output is returned whether or
\* not the subprocess failed
CaptureCommand(stdout, failed) == [stdout |-> stdout, err |-> failed]

\* a scan loop that ends at the first line json.Unmarshal rejects
RECURSIVE ScanLinesStopAtBadLine(_, _, _, _)
ScanLinesStopAtBadLine(lines, i, details, warns) ==
    IF i > Len(lines) THEN [details |-> details, warns |-> warns]
    ELSE LET line == lines[i] IN
         IF line.kind = "blank"
         THEN ScanLinesStopAtBadLine(lines, i + 1, details, warns)
         ELSE IF line.kind # "json"
         THEN [details |-> details, warns |-> Append(warns, Msg("warn_parse", "", i))]
         ELSE IF line.Service # ""
         THEN ScanLinesStopAtBadLine(lines, i + 1,
                        [s \in DOMAIN details \cup {line.Service} |->
                            IF s = line.Service THEN line ELSE details[s]],
                        warns)
         ELSE ScanLinesStopAtBadLine(lines, i + 1, details, warns)

\* lines 85-100: the scan loop.  Result: runningServicesDetails and the
\* warnings printed, after lines i..Len(lines)
RECURSIVE ScanLines(_, _, _, _)
ScanLines(lines, i, details, warns) ==
    IF i > Len(lines) THEN [details |-> details, warns |-> warns]
    ELSE LET line == lines[i] IN
         IF line.kind = "blank"
         THEN ScanLines(lines, i + 1, details, warns)
         ELSE IF line.kind # "json"
         THEN ScanLines(lines, i + 1, details,
                        Append(warns, Msg("warn_parse", "", i)))
         ELSE IF line.Service # ""
         THEN ScanLines(lines, i + 1,
                        [s \in DOMAIN details \cup {line.Service} |->
                            IF s = line.Service THEN line ELSE details[s]],
                        warns)
         ELSE ScanLines(lines, i + 1, details, warns)

\* notes that stop after the first argument
ArgNotesFirstOnly(a, available) ==
    IF a = <<>> \/ Head(a) \in available THEN <<>>
    ELSE <<Msg("info_not_in_config", Head(a), 0)>>

\* lines 113-133: one note per argument that is not a configured service
RECURSIVE ArgNotes(_, _)
ArgNotes(a, available) ==
    IF a = <<>> THEN <<>>
    ELSE (IF Head(a) \in available THEN <<>>
          ELSE <<Msg("info_not_in_config", Head(a), 0)>>)
         \o ArgNotes(Tail(a), available)

\* a selection that keeps every argument
ConfiguredArgsUnfiltered(a, available) == a

\* lines 136-140: the arguments that are configured services, in order
RECURSIVE ConfiguredArgs(_, _)
ConfiguredArgs(a, available) ==
    IF a = <<>> THEN <<>>
    ELSE (IF Head(a) \in available THEN <<Head(a)>> ELSE <<>>)
         \o ConfiguredArgs(Tail(a), available)

\* lines 110-157; `order` is the order in which the map range visits the
\* configured names
ServicesToDisplay(a, available, order) ==
    SortStrings(IF Len(a) > 0 THEN ConfiguredArgs(a, available) ELSE order)

\* a row that is Running only for a record in the state "running"
RowByLifecycleState(serviceName, details) ==
    IF serviceName \in DOMAIN details /\ details[serviceName].State = "running"
    THEN [service |-> serviceName, status |-> "Running",
          psService |-> details[serviceName].Service,
          state |-> details[serviceName].State]
    ELSE [service |-> serviceName, status |-> "Not Running",
          psService |-> "-", state |-> "-"]

\* lines 160-205: one printed row
Row(serviceName, details) ==
    IF serviceName \in DOMAIN details
    THEN [service |-> serviceName, status |-> "Running",
          psService |-> details[serviceName].Service,
          state |-> details[serviceName].State]
    ELSE [service |-> serviceName, status |-> "Not Running",
          psService |-> "-", state |-> "-"]

Rows(display, details) == [i \in DOMAIN display |-> Row(display[i], details)]

\* RunDockerComposePs up to the engine query (lines 52-70): a decoding
\* error is printed and the handler goes on
RunDockerComposePs ==
    \E a \in ArgLists :
        /\ Acquire("ps", a, FALSE, TRUE, FALSE,
                   IF Unmarshal(config, dockerComposeConfig).err
                   THEN <<Msg("error_load_config", "ps", 0)>>
                   ELSE <<>>)
        /\ availableServicesFromConfig' =
               DOMAIN Unmarshal(config, dockerComposeConfig).cfg.services.m

\* RunDockerComposePs from the engine query to its return (lines 72-206)
RunDockerComposePsReport ==
    /\ pc = "holding"
    /\ UNCHANGED <<doctorVars, execVars>>
    /\ op = "ps"
    /\ \E feed \in Feeds, failed \in BOOLEAN,
          order \in Orders(availableServicesFromConfig) :
         LET cap     == CaptureCommand(feed, failed)
             scan    == ScanLines(cap.stdout, 1, <<>>, <<>>)
             display == ServicesToDisplay(args, availableServicesFromConfig, order)
         IN  /\ dockerStdout' = feed
             /\ psOutputStr' = cap.stdout
             /\ psErr' = cap.err
             /\ out' = out \o
                       (IF cap.err THEN <<Msg("note_ps_error", "", 0)>> ELSE <<>>) \o
                       scan.warns \o
                       ArgNotes(args, availableServicesFromConfig)
             /\ report' = Rows(display, scan.details)
    /\ engineCalls' = Append(engineCalls,
                             <<"docker", "compose", "-f", tempComposePath, "ps">> \o args
                                 \o <<"--format", "json">>)
    /\ ReturnFromHandler(TRUE)
    /\ UNCHANGED <<op, args, allFlag, cmdErr, config, dockerComposeConfig,
                   fileContent, tempComposePath, fsFault,
                   availableServicesFromConfig>>

----------------------------------------------------------------------------
(* doctor: port diagnostics                                                *)

\* A string is the sequence of its pieces; ":" is a piece of its own and no
\* other piece contains a colon.
Colon == ":"

\* strings.Split(s, ":")
RECURSIVE Split(_)
Split(s) ==
    IF \A i \in DOMAIN s : s[i] # Colon THEN <<s>>
    ELSE LET k == CHOOSE i \in DOMAIN s :
                      s[i] = Colon /\ \A j \in 1..(i - 1) : s[j] # Colon
         IN  <<SubSeq(s, 1, k - 1)>> \o Split(SubSeq(s, k + 1, Len(s)))

\* strconv.Atoi on the strings of the universe
Atoi(s) ==
    IF Len(s) # 1 THEN [ok |-> FALSE, n |-> 0]
    ELSE CASE s[1] = "8080"  -> [ok |-> TRUE, n |-> 8080]
           [] s[1] = "80"    -> [ok |-> TRUE, n |-> 80]
           [] s[1] = "70000" -> [ok |-> TRUE, n |-> 70000]
           [] s[1] = "1"     -> [ok |-> TRUE, n |-> 1]
           [] s[1] = "2"     -> [ok |-> TRUE, n |-> 2]
           [] s[1] = "3"     -> [ok |-> TRUE, n |-> 3]
           [] s[1] = "4"     -> [ok |-> TRUE, n |-> 4]
           [] OTHER          -> [ok |-> FALSE, n |-> 0]

\* one element of a ports list: a string, or a value of another type
StringEntry(s) == [isString |-> TRUE, str |-> s]
OtherEntry == [isString |-> FALSE, str |-> <<>>]

PortEntries ==
    { StringEntry(<<"8080", Colon, "80">>),
      StringEntry(<<"127.0.0.1", Colon, "8080", Colon, "80">>),
      StringEntry(<<"0.0.0.0", Colon, "8080", Colon, "80">>),
      StringEntry(<<"8080">>),
      StringEntry(<<"70000", Colon, "80">>),
      StringEntry(<<"1", Colon, "2", Colon, "3", Colon, "4">>),
      StringEntry(<<"abc", Colon, "80">>),
      OtherEntry }

\* a service definition with a ports list
ServiceWithPorts(ports) ==
    [isMap |-> TRUE, ports |-> [set |-> TRUE, isList |-> TRUE, val |-> ports]]

\* a service definition that is not a mapping
ScalarService ==
    [isMap |-> FALSE, ports |-> [set |-> FALSE, isList |-> FALSE, val |-> <<>>]]

\* a service definition whose ports key is not a list
ServiceWithScalarPorts ==
    [isMap |-> TRUE, ports |-> [set |-> TRUE, isList |-> FALSE, val |-> <<>>]]

Finding(k, addr, svcs, i) == [kind |-> k, addr |-> addr, services |-> svcs, idx |-> i]

\* a parse that takes an entry without a colon for a container port and
\* skips it
ParsePortEntryTwoOrThree(serviceName, entry, i) ==
    IF ~entry.isString
    THEN Finding("warn_entry_not_string", <<>>, <<serviceName>>, i)
    ELSE LET parts == Split(entry.str)
             n     == Len(parts)
         IN  IF n \notin {2, 3}
             THEN Finding("warn_port_format", <<>>, <<serviceName>>, i)
             ELSE LET hostIP      == IF n = 3 THEN parts[1] ELSE <<>>
                      hostPortStr == IF n = 3 THEN parts[2] ELSE parts[1]
                  IN  IF ~Atoi(hostPortStr).ok
                      THEN Finding("warn_port_number", <<>>, <<serviceName>>, i)
                      ELSE Finding("claim",
                                   IF hostIP # <<>>
                                   THEN hostIP \o <<Colon>> \o hostPortStr
                                   ELSE <<Colon>> \o hostPortStr,
                                   <<serviceName>>, i)

\* the parse of one port entry (part_008 lines 290-320): a listen address
\* claimed by the service, or a warning
ParsePortEntry(serviceName, entry, i) ==
    IF ~entry.isString
    THEN Finding("warn_entry_not_string", <<>>, <<serviceName>>, i)
    ELSE LET parts == Split(entry.str)
             n     == Len(parts)
         IN  IF n \notin {1, 2, 3}
             THEN Finding("warn_port_format", <<>>, <<serviceName>>, i)
             ELSE LET hostIP      == IF n = 3 THEN parts[1] ELSE <<>>
                      hostPortStr == IF n = 3 THEN parts[2] ELSE parts[1]
                  IN  IF ~Atoi(hostPortStr).ok
                      THEN Finding("warn_port_number", <<>>, <<serviceName>>, i)
                      ELSE Finding("claim",
                                   IF hostIP # <<>>
                                   THEN hostIP \o <<Colon>> \o hostPortStr
                                   ELSE <<Colon>> \o hostPortStr,
                                   <<serviceName>>, i)

\* the entries of one service, parsed in order (part_008 lines 270-325)
ServiceItems(serviceName, def) ==
    IF ~def.isMap
    THEN <<Finding("warn_service_not_map", <<>>, <<serviceName>>, 0)>>
    ELSE IF ~def.ports.set THEN <<>>
    ELSE IF ~def.ports.isList
    THEN <<Finding("warn_ports_not_list", <<>>, <<serviceName>>, 0)>>
    ELSE [i \in DOMAIN def.ports.val |->
             ParsePortEntry(serviceName, def.ports.val[i], i)]

\* an analysis that ends at the first entry it cannot parse
RECURSIVE AllItemsAbortOnWarning(_, _)
AllItemsAbortOnWarning(services, order) ==
    IF order = <<>> THEN <<>>
    ELSE LET items == ServiceItems(Head(order), services[Head(order)])
             bad   == {i \in DOMAIN items : items[i].kind # "claim"}
         IN  IF bad # {}
             THEN SubSeq(items, 1, CHOOSE i \in bad : \A j \in bad : i <= j)
             ELSE items \o AllItemsAbortOnWarning(services, Tail(order))

\* the entries of all services, visited in the order `order`
RECURSIVE AllItems(_, _)
AllItems(services, order) ==
    IF order = <<>> THEN <<>>
    ELSE ServiceItems(Head(order), services[Head(order)])
         \o AllItems(services, Tail(order))

\* the host port of a listen address: what follows its last colon
HostPortOf(addr) == <<addr[Len(addr)]>>

\* net.Listen("tcp", addr) succeeds: the port is a valid port number and
\* nothing on the host holds the address
Listen(addr, inUse) ==
    /\ Atoi(HostPortOf(addr)).n \in 0..65535
    /\ addr \notin inUse

\* phase 1 of the two-phase analysis: portToServicesMap (part_008 line 322)
RECURSIVE Group(_, _)
Group(items, m) ==
    IF items = <<>> THEN m
    ELSE LET it == Head(items) IN
         IF it.kind # "claim" THEN Group(Tail(items), m)
         ELSE Group(Tail(items),
                    [a \in DOMAIN m \cup {it.addr} |->
                        IF a = it.addr
                        THEN (IF a \in DOMAIN m THEN m[a] ELSE <<>>) \o it.services
                        ELSE m[a]])

Warnings(items) == SelectSeq(items, LAMBDA it : it.kind # "claim")

\* part_008 lines 327-336
internallyConflictedPorts(portToServicesMap) ==
    {a \in DOMAIN portToServicesMap : Len(portToServicesMap[a]) > 1}

\* part_008 lines 329-339, keys visited in the order `order`
ConflictLines(portToServicesMap, order) ==
    IF order = <<>>
    THEN <<Finding("ok_no_internal_conflict", <<>>, <<>>, 0)>>
    ELSE [i \in DOMAIN order |->
             Finding("internal_conflict", order[i], portToServicesMap[order[i]], 0)]

\* part_008 lines 348-362, keys visited in the order `order`
ProbeLines(portToServicesMap, order, inUse) ==
    [i \in DOMAIN order |->
        Finding(IF Listen(order[i], inUse) THEN "available" ELSE "host_conflict",
                order[i], <<portToServicesMap[order[i]][1]>>, 0)]

\* earlier checks that take a services mapping without entries for a
\* missing one
DoctorStopsOnEmptyServices ==
    IF ~config.readable THEN "error_read_config"
    ELSE IF Unmarshal(config, ZeroConfig).err THEN "error_structure"
    ELSE IF DOMAIN Unmarshal(config, ZeroConfig).cfg.services.m = {} THEN "error_no_services"
    ELSE ""

\* the earlier checks of runDoctorChecks (part_008 lines 217-259): the
\* line that ends the run, or "" when the port analysis is reached
DoctorStops ==
    IF ~config.readable THEN "error_read_config"
    ELSE IF Unmarshal(config, ZeroConfig).err THEN "error_structure"
    ELSE IF Unmarshal(config, ZeroConfig).cfg.services.isNil THEN "error_no_services"
    ELSE ""

DoctorFrame(revision) ==
    /\ pc = "ready"
    /\ UNCHANGED execVars
    /\ op' = revision
    /\ pc' = "exited"
    /\ exitCode' = 0
    /\ UNCHANGED <<args, allFlag, cmdErr, progress, config, dockerComposeConfig,
                   files, fileContent, tempComposePath, fsFault,
                   availableServicesFromConfig, engineCalls, dockerStdout,
                   psOutputStr, psErr, out, report, hostInUse>>

\* runDoctorChecks, the two-phase analysis (part_008 lines 214-375)
runDoctorChecks ==
    /\ DoctorFrame("doctor")
    /\ IF DoctorStops # ""
       THEN /\ findings' = <<Finding(DoctorStops, <<>>, <<>>, 0)>>
            /\ probes' = <<>>
       ELSE IF DOMAIN config.services.val = {}
       THEN /\ findings' = <<Finding("info_no_services", <<>>, <<>>, 0),
                             Finding("complete", <<>>, <<>>, 0)>>
            /\ probes' = <<>>
       ELSE \E order \in Orders(DOMAIN config.services.val) :
              LET items      == AllItems(config.services.val, order)
                  m          == Group(items, <<>>)
                  conflicted == internallyConflictedPorts(m)
              IN  \E order2 \in Orders(conflicted),
                     order3 \in Orders(DOMAIN m \ conflicted) :
                    /\ findings' = Warnings(items)
                                   \o ConflictLines(m, order2)
                                   \o (IF DOMAIN m = {}
                                       THEN <<Finding("info_no_ports", <<>>, <<>>, 0)>>
                                       ELSE <<>>)
                                   \o ProbeLines(m, order3, hostInUse)
                                   \o (IF DOMAIN m = {}
                                       THEN <<Finding("info_no_valid_ports", <<>>, <<>>, 0)>>
                                       ELSE <<>>)
                                   \o <<Finding("complete", <<>>, <<>>, 0)>>
                    /\ probes' = order3

\* the single-pass analysis of the earlier revision (part_009 lines 280-328):
\* the state after the items, from parsedHostPorts, findings and probes
RECURSIVE SinglePass(_, _, _, _, _)
SinglePass(items, parsedHostPorts, lines, probed, inUse) ==
    IF items = <<>> THEN [lines |-> lines, probes |-> probed]
    ELSE LET it == Head(items) IN
         IF it.kind # "claim"
         THEN SinglePass(Tail(items), parsedHostPorts, Append(lines, it), probed, inUse)
         ELSE IF it.addr \in DOMAIN parsedHostPorts
         THEN SinglePass(Tail(items), parsedHostPorts,
                         Append(lines, Finding("internal_conflict", it.addr,
                                               it.services \o <<parsedHostPorts[it.addr]>>, 0)),
                         probed, inUse)
         ELSE SinglePass(Tail(items),
                         [a \in DOMAIN parsedHostPorts \cup {it.addr} |->
                             IF a = it.addr THEN it.services[1] ELSE parsedHostPorts[a]],
                         Append(lines,
                                Finding(IF Listen(it.addr, inUse)
                                        THEN "available" ELSE "host_conflict",
                                        it.addr, it.services, 0)),
                         Append(probed, it.addr), inUse)

\* runDoctorChecks, the single-pass analysis (part_009 lines 209-334)
runDoctorChecksSinglePass ==
    /\ DoctorFrame("doctor-single-pass")
    /\ IF DoctorStops # ""
       THEN /\ findings' = <<Finding(DoctorStops, <<>>, <<>>, 0)>>
            /\ probes' = <<>>
       ELSE IF DOMAIN config.services.val = {}
       THEN /\ findings' = <<Finding("info_no_services", <<>>, <<>>, 0),
                             Finding("info_no_ports", <<>>, <<>>, 0),
                             Finding("complete", <<>>, <<>>, 0)>>
            /\ probes' = <<>>
       ELSE \E order \in Orders(DOMAIN config.services.val) :
              LET r == SinglePass(AllItems(config.services.val, order),
                                  <<>>, <<>>, <<>>, hostInUse)
              IN  /\ findings' = r.lines \o <<Finding("complete", <<>>, <<>>, 0)>>
                  /\ probes' = r.probes

----------------------------------------------------------------------------
(* ExecuteCommand: the subprocess, the two reader goroutines and the       *)
(* caller, which starts them, waits for the subprocess and receives from   *)
(* stdoutDone and stderrDone                                               *)

Streams == {"stdout", "stderr"}

\* the variables outside the call
callerVars == <<pc, op, args, allFlag, exitCode, cmdErr, progress, config,
                dockerComposeConfig, files, fileContent, tempComposePath,
                fsFault, availableServicesFromConfig, engineCalls, dockerStdout,
                psOutputStr, psErr, out, report, doctorVars>>

\* cmd.Wait has returned; it closes the read ends of both pipes
PipesClosed == execPc \in {"joining-stdout", "joining-stderr", "returned"}

\* lines 51-90: the pipes, cmd.Start and the two goroutines
ExecStart ==
    /\ execPc = "idle"
    /\ \/ /\ execPc' = "returned"                 \* a pipe or cmd.Start failed
          /\ execErr' = TRUE
          /\ UNCHANGED <<child, readers>>
       \/ /\ execPc' = "waiting"
          /\ child' = "running"
          /\ readers' = [s \in Streams |-> "scanning"]
          /\ UNCHANGED execErr
    /\ UNCHANGED <<written, consumed, callerVars>>

\* the subprocess writes a line to one of its pipes
ChildWrite ==
    /\ child = "running"
    /\ \E s \in Streams :
         /\ written[s] < MaxWrites
         /\ written' = [written EXCEPT ![s] = @ + 1]
    /\ UNCHANGED <<execPc, execErr, child, readers, consumed, callerVars>>

\* the subprocess exits with status zero or not
ChildExit ==
    /\ child = "running"
    /\ child' \in {"zero", "nonzero"}
    /\ UNCHANGED <<execPc, execErr, readers, written, consumed, callerVars>>

\* lines 70-74, 81-85: a reader scans and prints one line
ReaderScan ==
    /\ \E s \in Streams :
         /\ readers[s] = "scanning"
         /\ consumed[s] < written[s]
         /\ consumed' = [consumed EXCEPT ![s] = @ + 1]
    /\ UNCHANGED <<execPc, execErr, child, readers, written, callerVars>>

\* lines 75-78, 86-89: Scan returns false, at the end of the stream or
\* because the pipe was closed under the reader; the reader closes its
\* channel
ReaderDone ==
    /\ \E s \in Streams :
         /\ readers[s] = "scanning"
         /\ \/ child \in {"zero", "nonzero"} /\ consumed[s] = written[s]
            \/ PipesClosed
         /\ readers' = [readers EXCEPT ![s] = "done"]
    /\ UNCHANGED <<execPc, execErr, child, written, consumed, callerVars>>

\* lines 91-93: cmd.Wait returns when the subprocess has exited; on a
\* non-zero status ExecuteCommand returns the error at once
Wait ==
    /\ execPc = "waiting"
    /\ child \in {"zero", "nonzero"}
    /\ IF child = "nonzero"
       THEN execPc' = "returned" /\ execErr' = TRUE
       ELSE execPc' = "joining-stdout" /\ UNCHANGED execErr
    /\ UNCHANGED <<child, readers, written, consumed, callerVars>>

\* line 94: <-stdoutDone
ReceiveStdoutDone ==
    /\ execPc = "joining-stdout"
    /\ readers["stdout"] = "done"
    /\ execPc' = "joining-stderr"
    /\ UNCHANGED <<execErr, child, readers, written, consumed, callerVars>>

\* lines 95-96: <-stderrDone, return nil
ReceiveStderrDone ==
    /\ execPc = "joining-stderr"
    /\ readers["stderr"] = "done"
    /\ execPc' = "returned"
    /\ execErr' = FALSE
    /\ UNCHANGED <<child, readers, written, consumed, callerVars>>

\* no ExecuteCommand call is under way
ExecIdle ==
    /\ execPc = "idle"
    /\ execErr = FALSE
    /\ child = "none"
    /\ readers = [s \in Streams |-> "none"]
    /\ written = [s \in Streams |-> 0]
    /\ consumed = [s \in Streams |-> 0]

----------------------------------------------------------------------------
(* Specifications                                                          *)

\* a service definition without a ports key
PlainService ==
    [isMap |-> TRUE, ports |-> [set |-> FALSE, isList |-> FALSE, val |-> <<>>]]

ServiceMaps == {[n \in S |-> PlainService] : S \in SUBSET ServiceNames}

SectionKeys == {AbsentKey, ScalarKey, MapKey([default |-> "section"])}

Faults == {"none", "create", "marshal", "write", "close"}

ProcessStart ==
    /\ pc = "main"
    /\ op = "none"
    /\ args = <<>>
    /\ allFlag = FALSE
    /\ exitCode = -1
    /\ cmdErr = FALSE
    /\ progress = "nil"
    /\ dockerComposeConfig = ZeroConfig
    /\ files = {}
    /\ fileContent = [p \in TempPaths |-> NoContent]
    /\ tempComposePath = ""
    /\ availableServicesFromConfig = {}
    /\ engineCalls = <<>>
    /\ dockerStdout = <<>>
    /\ psOutputStr = <<>>
    /\ psErr = FALSE
    /\ out = <<>>
    /\ report = <<>>
    /\ findings = <<>>
    /\ probes = <<>>
    /\ ExecIdle

\* any configuration document, any file-system fault
Init ==
    /\ ProcessStart
    /\ hostInUse = {}
    /\ fsFault \in Faults
    /\ \E r \in BOOLEAN, sv \in {AbsentKey, ScalarKey} \cup {MapKey(m) : m \in ServiceMaps},
          vo \in SectionKeys, ne \in SectionKeys :
         config = [readable |-> r, services |-> sv, volumes |-> vo, networks |-> ne]

Next ==
    \/ initConfig
    \/ RunDockerComposeUp
    \/ RunDockerComposeUpEngine
    \/ RunDockerComposeDown
    \/ RunDockerComposeDownEngine
    \/ RunDockerComposeLogs
    \/ RunDockerComposeLogsEngine
    \/ RunDockerComposeInstall
    \/ RunDockerComposeInstallEngine
    \/ RunDockerImportDB
    \/ RunDockerImportDBSteps
    \/ catchSignal

Spec == Init /\ [][Next]_vars

\* the status query: a readable configuration whose services key is a
\* mapping, every output the engine may print
InitPs ==
    /\ ProcessStart
    /\ hostInUse = {}
    /\ fsFault \in {"none", "create"}
    /\ \E m \in ServiceMaps :
         config = [readable |-> TRUE, services |-> MapKey(m),
                   volumes |-> AbsentKey, networks |-> AbsentKey]

NextPs ==
    \/ initConfig
    \/ RunDockerComposePs
    \/ RunDockerComposePsReport
    \/ catchSignal

SpecPs == InitPs /\ [][NextPs]_vars

\* the commands that hand one argument vector to the engine: up, down,
\* logs and ps, from the initial states of the status query
NextCompose ==
    \/ initConfig
    \/ RunDockerComposeUp
    \/ RunDockerComposeUpEngine
    \/ RunDockerComposeDown
    \/ RunDockerComposeDownEngine
    \/ RunDockerComposeLogs
    \/ RunDockerComposeLogsEngine
    \/ RunDockerComposePs
    \/ RunDockerComposePsReport
    \/ catchSignal

SpecCompose == InitPs /\ [][NextCompose]_vars

\* up, down, logs and ps on a readable configuration whose services key is
\* a mapping or a value of another type
InitStructure ==
    /\ ProcessStart
    /\ hostInUse = {}
    /\ fsFault = "none"
    /\ \E sv \in {ScalarKey} \cup {MapKey(m) : m \in ServiceMaps} :
         config = [readable |-> TRUE, services |-> sv,
                   volumes |-> AbsentKey, networks |-> AbsentKey]

SpecStructure == InitStructure /\ [][NextCompose]_vars

\* one ExecuteCommand call, made by a handler that holds a manifest
InitExec ==
    /\ ProcessStart
    /\ hostInUse = {}
    /\ fsFault = "none"
    /\ config = [readable |-> TRUE, services |-> MapKey([api |-> PlainService]),
                 volumes |-> AbsentKey, networks |-> AbsentKey]

NextExec ==
    \/ ExecStart
    \/ ChildWrite
    \/ ChildExit
    \/ ReaderScan
    \/ ReaderDone
    \/ Wait
    \/ ReceiveStdoutDone
    \/ ReceiveStderrDone

SpecExec == InitExec /\ [][NextExec]_vars

\* createTempComposeFile called on its own, again and again on the same
\* configuration, by a caller that removes nothing; os.CreateTemp picks a
\* name no file has
createTempComposeFileCall ==
    /\ pc = "ready"
    /\ \E p \in TempPaths \ files :
         LET r == createTempComposeFile(config, dockerComposeConfig, files,
                                        fileContent, fsFault, p)
         IN  /\ dockerComposeConfig' = r.cfg
             /\ files' = r.files
             /\ fileContent' = r.content
             /\ tempComposePath' = r.path
             /\ out' = out \o r.warn
    /\ UNCHANGED <<pc, op, args, allFlag, exitCode, cmdErr, progress, config,
                   fsFault, availableServicesFromConfig, engineCalls, dockerStdout,
                   psOutputStr, psErr, report, doctorVars, execVars>>

\* any configuration document, and a file system on which os.CreateTemp
\* succeeds
InitSynthesis ==
    /\ Init
    /\ fsFault # "create"

NextSynthesis ==
    \/ initConfig
    \/ createTempComposeFileCall

SpecSynthesis == InitSynthesis /\ [][NextSynthesis]_vars

\* the doctor command: the services that declare ports, their port entries
\* (at most MaxEntries in the document), the shape of the services that
\* declare none, and the addresses the host holds
DoctorNames == {"api", "db"}

HostAddrs == {<<Colon, "8080">>, <<"127.0.0.1", Colon, "8080">>}

\* the port entries one service may declare, at most n of them
PortLists(n) == SeqsUpTo(PortEntries, n)

Shapes == {"absent", "plain", "scalar", "scalarports"}

ShapedService(shape) ==
    CASE shape = "scalar"      -> ScalarService
      [] shape = "scalarports" -> ServiceWithScalarPorts
      [] OTHER                 -> PlainService

\* the services mapping: a service with port entries declares them, a
\* service without has the shape chosen for it or is absent
DoctorServices(ports, shape) ==
    [n \in {x \in DoctorNames : ports[x] # <<>> \/ shape[x] # "absent"} |->
        IF ports[n] # <<>>
        THEN ServiceWithPorts(ports[n])
        ELSE ShapedService(shape[n])]

ShapesFor(ports) ==
    {sh \in [DoctorNames -> Shapes] :
        \A n \in DoctorNames : ports[n] # <<>> => sh[n] = "absent"}

\* a document whose services key is a mapping, one where it is not, or one
\* whose services key is a mapping beside a volumes key that is none
DoctorDocument ==
    \/ \E pa \in PortLists(MaxEntries) :
         \E pd \in PortLists(MaxEntries - Len(pa)) :
           \E shape \in ShapesFor([api |-> pa, db |-> pd]) :
             config = [readable |-> TRUE,
                       services |-> MapKey(DoctorServices([api |-> pa, db |-> pd], shape)),
                       volumes |-> AbsentKey, networks |-> AbsentKey]
    \/ \E r \in BOOLEAN, sv \in {AbsentKey, ScalarKey}, vo \in {AbsentKey, ScalarKey} :
         config = [readable |-> r, services |-> sv, volumes |-> vo,
                   networks |-> AbsentKey]
    \/ \E pa \in PortLists(1), pd \in PortLists(1) :
         config = [readable |-> TRUE,
                   services |-> MapKey(DoctorServices([api |-> pa, db |-> pd],
                                                      [n \in DoctorNames |-> "absent"])),
                   volumes |-> ScalarKey, networks |-> AbsentKey]

\* initConfig has run; doctor reads the file again, which may have become
\* unreadable since
InitDoctor ==
    /\ pc = "ready"
    /\ op = "none"
    /\ args = <<>>
    /\ allFlag = FALSE
    /\ exitCode = -1
    /\ cmdErr = FALSE
    /\ progress = "idle"
    /\ dockerComposeConfig = ZeroConfig
    /\ files = {}
    /\ fileContent = [p \in TempPaths |-> NoContent]
    /\ tempComposePath = ""
    /\ fsFault = "none"
    /\ availableServicesFromConfig = {}
    /\ engineCalls = <<>>
    /\ dockerStdout = <<>>
    /\ psOutputStr = <<>>
    /\ psErr = FALSE
    /\ out = <<>>
    /\ report = <<>>
    /\ findings = <<>>
    /\ probes = <<>>
    /\ hostInUse \in SUBSET HostAddrs
    /\ DoctorDocument
    /\ ExecIdle

NextDoctor ==
    \/ runDoctorChecks
    \/ runDoctorChecksSinglePass

SpecDoctor == InitDoctor /\ [][NextDoctor]_vars

----------------------------------------------------------------------------
(* Properties of the command life cycle and of synthesis                   *)

\* the signal handler ran
Signalled == \E i \in DOMAIN out : out[i].kind = "signal"

\* C1: when an operation that synthesized a manifest ends, by return or by a
\* fatal exit of its handler, the manifest file no longer exists
C1_ManifestDeletedOnEveryExit ==
    (pc = "exited" /\ ~Signalled /\ tempComposePath # "") => tempComposePath \notin files

\* C2: when a termination signal is handled while the operation holds a
\* manifest, the manifest is deleted before the process exits
C2_SignalExitDeletesManifest ==
    (pc = "exited" /\ Signalled /\ tempComposePath # "") => tempComposePath \notin files

\* C3: a written manifest has no version key, and has a section key only if
\* the configuration set that section; in particular no volumes and no
\* networks key when the configuration omits both
C3_NoSpuriousTopLevelKeys ==
    \A p \in files :
        fileContent[p].written =>
            /\ "version" \notin DOMAIN fileContent[p].yaml
            /\ \A k \in DOMAIN fileContent[p].yaml : IsSet(config, k)

----------------------------------------------------------------------------
(* Properties of the status report                                         *)

\* the configured service names, read off the configuration document
Configured == DOMAIN config.services.val

\* the service names carried by the records the engine wrote
LiveServices ==
    {dockerStdout[i].Service :
        i \in {j \in DOMAIN dockerStdout :
                 dockerStdout[j].kind = "json" /\ dockerStdout[j].Service # ""}}

\* the handler queried the engine and printed its table
PsReported == op = "ps" /\ engineCalls # <<>>

\* the configured names the report is about
Retained == IF args = <<>> THEN Configured ELSE Range(args) \cap Configured

ReportedServices == {report[i].service : i \in DOMAIN report}

\* C4: ps without arguments prints exactly one row per configured service,
\* in increasing lexicographic order of name; a row is Running exactly if
\* the live feed names its service, and a Not Running row carries placeholders
C4_ReconciliationComplete ==
    (PsReported /\ args = <<>>) =>
        /\ Len(report) = Cardinality(Configured)
        /\ ReportedServices = Configured
        /\ \A i, j \in DOMAIN report :
               i < j => StringLess(report[i].service, report[j].service)
        /\ \A i \in DOMAIN report :
               /\ report[i].status = "Running" <=> report[i].service \in LiveServices
               /\ report[i].status \in {"Running", "Not Running"}
               /\ report[i].status = "Not Running" =>
                      report[i].psService = "-" /\ report[i].state = "-"

C4_Witness ==
    /\ PsReported /\ args = <<>>
    /\ Cardinality(Configured) = 3
    /\ Cardinality(LiveServices \cap Configured) = 2
    /\ \E i, j \in DOMAIN report :
           report[i].status = "Running" /\ report[j].status = "Not Running"

\* C5: ps with arguments prints exactly one row per distinct requested name
\* that is configured, sorted by name, and no other row
C5_OneRowPerRequestedService ==
    (PsReported /\ args # <<>>) =>
        /\ ReportedServices = Range(args) \cap Configured
        /\ Len(report) = Cardinality(Range(args) \cap Configured)
        /\ \A i, j \in DOMAIN report :
               i < j => StringLess(report[i].service, report[j].service)

\* C6: no row of the report is about a service that is not configured
C6_ReconciliationExclusion ==
    PsReported =>
        \A i \in DOMAIN report :
            /\ report[i].service \in Configured
            /\ report[i].psService \in Configured \cup {"-"}

C6_Witness ==
    /\ PsReported
    /\ report # <<>>
    /\ LiveServices \ Configured # {}
    /\ Range(args) \ Configured # {}

C8_UnknownRequestedService ==
    PsReported =>
        /\ \A a \in Range(args) \ Configured :
               /\ \E k \in DOMAIN out : out[k] = Msg("info_not_in_config", a, 0)
               /\ a \notin ReportedServices
        /\ \A a \in Range(args) \cap Configured : a \in ReportedServices
        /\ exitCode = 0 /\ ~cmdErr
        /\ \A k \in DOMAIN out : out[k].kind \notin {"error_engine", "error_temp_file"}

C8_Witness ==
    /\ PsReported
    /\ Len(args) = 2
    /\ args[1] \notin Configured
    /\ args[2] \in Configured
    /\ Len(report) = 1

----------------------------------------------------------------------------
(* Properties of the port diagnostics                                      *)

\* the port analysis ran to its end
DoctorAnalysed ==
    /\ pc = "exited"
    /\ op \in {"doctor", "doctor-single-pass"}
    /\ findings # <<>>
    /\ findings[Len(findings)].kind = "complete"
    /\ DoctorStops = ""

\* the services that claim a listen address, read off the document
Claimants(addr) ==
    {n \in DOMAIN config.services.val :
        \E i \in DOMAIN ServiceItems(n, config.services.val[n]) :
            LET it == ServiceItems(n, config.services.val[n])[i]
            IN  it.kind = "claim" /\ it.addr = addr}

ClaimedAddrs ==
    UNION {{ServiceItems(n, config.services.val[n])[i].addr :
               i \in {j \in DOMAIN ServiceItems(n, config.services.val[n]) :
                        ServiceItems(n, config.services.val[n])[j].kind = "claim"}} :
           n \in DOMAIN config.services.val}

ProbeKinds == {"available", "host_conflict"}

\* C10: a listen address claimed by two declared services is reported as an
\* internal conflict and is not probed, and no line reports it available or
\* in use for any of its claimants: it is never both an internal conflict
\* and a probe result
C10_InternalConflictExclusive ==
    DoctorAnalysed =>
        \A a \in ClaimedAddrs :
            Cardinality(Claimants(a)) >= 2 =>
                /\ \E k \in DOMAIN findings :
                       findings[k].kind = "internal_conflict" /\ findings[k].addr = a
                /\ a \notin Range(probes)
                /\ \A k \in DOMAIN findings :
                       findings[k].kind \in ProbeKinds => findings[k].addr # a

\* the two-phase analysis ran to its end
TwoPhaseAnalysed == DoctorAnalysed /\ op = "doctor"

ConflictReported(a) ==
    \E k \in DOMAIN findings :
        findings[k].kind = "internal_conflict" /\ findings[k].addr = a

\* C11: a listen address is reported as an internal conflict exactly if more
\* than one distinct service name claims it; an address claimed by one
\* service only, even twice, is no conflict and is probed
C11_ConflictIffDistinctClaimants ==
    TwoPhaseAnalysed =>
        \A a \in ClaimedAddrs :
            /\ ConflictReported(a) <=> Cardinality(Claimants(a)) > 1
            /\ Cardinality(Claimants(a)) = 1 => a \in Range(probes)

\* the parsed entries of a declared service, read off the document
ItemsOf(n) == ServiceItems(n, config.services.val[n])

MalformedKinds == {"warn_entry_not_string", "warn_port_format", "warn_port_number"}

\* C12: every malformed port entry gets its warning, every well-formed entry
\* of any service gets an internal-conflict or a probe finding that names its
\* address and its service, and the diagnostics run to their end
C12_MalformedEntryTolerated ==
    DoctorAnalysed =>
        /\ \A n \in DOMAIN config.services.val : \A i \in DOMAIN ItemsOf(n) :
               IF ItemsOf(n)[i].kind = "claim"
               THEN \E k \in DOMAIN findings :
                        /\ findings[k].kind \in ProbeKinds \cup {"internal_conflict"}
                        /\ findings[k].addr = ItemsOf(n)[i].addr
                        /\ n \in Range(findings[k].services)
               ELSE \E k \in DOMAIN findings : findings[k] = ItemsOf(n)[i]
        /\ exitCode = 0

C12_Witness ==
    /\ DoctorAnalysed
    /\ \E n, o \in DOMAIN config.services.val :
           /\ n # o
           /\ \E i, j \in DOMAIN ItemsOf(n) :
                  /\ i < j
                  /\ ItemsOf(n)[i].kind \in MalformedKinds
                  /\ ItemsOf(n)[j].kind = "claim"
           /\ \E i \in DOMAIN ItemsOf(o) : ItemsOf(o)[i].kind = "claim"
    /\ \E k \in DOMAIN findings : findings[k].kind \in MalformedKinds
    /\ \E k \in DOMAIN findings : findings[k].kind \in ProbeKinds

\* the valid host ports
HostPorts == 1..65535

\* the listen addresses the report mentions
ReportedAddrs ==
    {findings[k].addr : k \in {l \in DOMAIN findings : findings[l].addr # <<>>}}

\* C13: every listen address that is grouped, reported or probed has a host
\* port between 1 and 65535; no other host port is ever probed
C13_HostPortInRange ==
    TwoPhaseAnalysed =>
        \A a \in ReportedAddrs \cup Range(probes) :
            Atoi(HostPortOf(a)).n \in HostPorts

\* the findings that name a service
ServiceFindings == SelectSeq(findings, LAMBDA f : f.services # <<>>)

\* names in nondecreasing order
NameOrdered(names) ==
    \A i, j \in DOMAIN names : i < j => ~StringLess(names[j], names[i])

\* C14: the report of a run depends on the configuration and the host state
\* only: the findings come in the order of the service names they are about,
\* and the claimants of an internal conflict are listed in name order
C14_ReportDeterministic ==
    TwoPhaseAnalysed =>
        /\ NameOrdered([k \in DOMAIN ServiceFindings |-> ServiceFindings[k].services[1]])
        /\ \A k \in DOMAIN findings :
               findings[k].kind = "internal_conflict" => NameOrdered(findings[k].services)

\* the probe findings about a listen address
ProbeFindings(a) ==
    {k \in DOMAIN findings : findings[k].kind \in ProbeKinds /\ findings[k].addr = a}

\* C15: a listen address that is not claimed by two services is probed
\* exactly once and has exactly one probe finding, which is "available"
\* exactly if the bind succeeds and a host conflict on any bind failure; the
\* process does not fail
C15_OneProbePerUnconflictedKey ==
    TwoPhaseAnalysed =>
        /\ \A a \in ClaimedAddrs :
               Cardinality(Claimants(a)) <= 1 =>
                   /\ Cardinality({i \in DOMAIN probes : probes[i] = a}) = 1
                   /\ Cardinality(ProbeFindings(a)) = 1
                   /\ \A k \in ProbeFindings(a) :
                          findings[k].kind = "available" <=> Listen(a, hostInUse)
        /\ exitCode = 0

\* runDoctorChecks returned
DoctorRan == pc = "exited" /\ op \in {"doctor", "doctor-single-pass"}

\* the run ended with the line "Doctor checks complete"
DoctorCompleted ==
    findings # <<>> /\ findings[Len(findings)].kind = "complete"

----------------------------------------------------------------------------
(* Properties of the commands and of the engine invocation                 *)

\* C17: up, down and logs given --all together with a name, neither --all
\* nor a name, or more than one name return an error; the engine is not
\* invoked and no manifest is synthesized
C17_InvalidArgumentsRejected ==
    (/\ op \in {"up", "down", "logs"}
     /\ \/ allFlag /\ Len(args) > 0
        \/ ~allFlag /\ Len(args) = 0
        \/ Len(args) > 1) =>
        /\ cmdErr
        /\ engineCalls = <<>>
        /\ files = {} /\ tempComposePath = ""
        /\ \A p \in TempPaths : fileContent[p] = NoContent

C17_Witness ==
    /\ op = "logs" /\ pc = "exited" /\ cmdErr
    /\ allFlag /\ Len(args) = 1
    /\ engineCalls = <<>> /\ files = {}

\* the subcommand words of up, down and logs
Subcommand(o) ==
    CASE o = "up"   -> <<"up", "-d">>
      [] o = "down" -> <<"down">>
      [] OTHER      -> <<"logs", "--follow">>

\* C18: up, down and logs invoke docker with compose -f <manifest> and the
\* subcommand, followed by the service name exactly if --all is not set and
\* a name was given, and without a format flag; ps invokes it with
\* compose -f <manifest> ps, the requested names, and --format json last
C18_EngineArguments ==
    \A i \in DOMAIN engineCalls :
        /\ tempComposePath \in TempPaths
        /\ op \in {"up", "down", "logs"} =>
               /\ engineCalls[i] =
                      <<"docker", "compose", "-f", tempComposePath>> \o Subcommand(op) \o
                      (IF ~allFlag /\ Len(args) > 0 THEN <<args[1]>> ELSE <<>>)
               /\ "--format" \notin Range(engineCalls[i])
        /\ op = "ps" =>
               engineCalls[i] =
                   <<"docker", "compose", "-f", tempComposePath, "ps">> \o args \o
                   <<"--format", "json">>

C18_Witness ==
    /\ op = "ps" /\ args = <<"db", "api">>
    /\ engineCalls = <<<<"docker", "compose", "-f", tempComposePath, "ps", "db", "api",
                          "--format", "json">>>>

\* the engine invocation of the operation failed
EngineFailed == \E k \in DOMAIN out : out[k].kind = "error_engine"

\* C19: when the engine invocation of up, down or install fails, the process
\* ends with a non-zero status and the success message is not printed
C19_EngineFailureIsFatal ==
    (op \in {"up", "down", "install"} /\ EngineFailed) =>
        /\ pc = "exited"
        /\ exitCode > 0
        /\ \A k \in DOMAIN out : out[k].kind # "success"

C19_Witness ==
    /\ op = "install" /\ EngineFailed
    /\ engineCalls # <<>>
    /\ pc = "exited" /\ exitCode = 1

----------------------------------------------------------------------------
(* Properties of ExecuteCommand                                            *)

\* C20: whenever ExecuteCommand has returned after starting the subprocess,
\* with a zero or a non-zero exit status, both reader goroutines have
\* finished
C20_ReadersJoinedOnReturn ==
    (execPc = "returned" /\ child # "none") =>
        \A s \in Streams : readers[s] = "done"

----------------------------------------------------------------------------
(* Further properties of synthesis                                         *)

\* C21: two calls of createTempComposeFile on the same unchanged
\* configuration write manifests with the same services, volumes and
\* networks sections, at two different paths
C21_SynthesisIdempotent ==
    \A p, q \in TempPaths :
        (fileContent[p].written /\ fileContent[q].written) =>
            fileContent[p].yaml = fileContent[q].yaml

C21_Witness ==
    /\ \A p \in TempPaths : p \in files /\ fileContent[p].written
    /\ Cardinality(files) = 2
    /\ DOMAIN fileContent[tempComposePath].yaml["services"] # {}
    /\ config.volumes = ScalarKey
    /\ config.networks.isMap

\* the handler called createTempComposeFile
SynthesisCalled ==
    /\ op \in {"up", "down", "logs", "install", "import-db", "ps"}
    /\ ~cmdErr
    /\ \A k \in DOMAIN out : out[k].kind # "error_no_target"

\* C22: a path is returned only for a file that was created, fully written
\* and closed without error; when creating, writing or closing the file
\* fails, no path is returned and the calling operation ends with a
\* non-zero status
C22_PathOnlyForCompleteClosedFile ==
    /\ tempComposePath # "" =>
           /\ fileContent[tempComposePath].written
           /\ fileContent[tempComposePath].closed
    /\ (SynthesisCalled /\ fsFault \in {"create", "write", "close"}) =>
           /\ tempComposePath = ""
           /\ pc = "exited" /\ exitCode > 0
           /\ \E k \in DOMAIN out : out[k].kind = "error_temp_file"

----------------------------------------------------------------------------
(* Properties of error handling                                            *)

\* C23: when the services key of the configuration is present and is not a
\* mapping, ps, up, down and logs never invoke the compose engine and the
\* process ends with a non-zero status
C23_ServicesNotMappingIsFatal ==
    (/\ config.services.set /\ ~config.services.isMap
     /\ op \in {"ps", "up", "down", "logs"} /\ ~cmdErr) =>
        /\ engineCalls = <<>>
        /\ (pc = "exited" /\ ~Signalled) => exitCode > 0

\* the lines of the engine's output a warning was printed about
WarnedLines ==
    {out[k].idx : k \in {l \in DOMAIN out : out[l].kind = "warn_parse"}}

\* the kinds of warning the diagnostics print about a service or an entry
SkipKinds == MalformedKinds \cup {"warn_service_not_map", "warn_ports_not_list"}

\* C24: every record of the live feed that is not used, because it cannot
\* be parsed or because it carries no service name, and every service
\* definition and port entry the diagnostics skip, has a warning line
C24_NothingDroppedSilently ==
    /\ PsReported =>
           \A i \in DOMAIN dockerStdout :
               (\/ dockerStdout[i].kind = "garbage"
                \/ dockerStdout[i].kind = "json" /\ dockerStdout[i].Service = "") =>
                   i \in WarnedLines
    /\ DoctorAnalysed =>
           \A n \in DOMAIN config.services.val : \A i \in DOMAIN ItemsOf(n) :
               ItemsOf(n)[i].kind # "claim" =>
                   \E k \in DOMAIN findings :
                       /\ findings[k].kind \in SkipKinds
                       /\ findings[k].services = <<n>>
                       /\ findings[k].idx = ItemsOf(n)[i].idx

----------------------------------------------------------------------------
(* Further properties of the port diagnostics                              *)

\* the line with which the run must stop before the port analysis, read off
\* the document ("" when every earlier check passes)
EarlyStop ==
    IF ~config.readable THEN "error_read_config"
    ELSE IF \E f \in {"services", "volumes", "networks"} :
                config[f].set /\ ~config[f].isMap
    THEN "error_structure"
    ELSE IF ~config.services.set THEN "error_no_services"
    ELSE ""

\* C25: when the configuration cannot be read, its structure cannot be
\* decoded or the services key is missing, runDoctorChecks reports that
\* error, in this order of precedence, and stops: it probes no port and
\* prints nothing further
C25_NoProbeUnlessEarlierChecksPass ==
    (DoctorRan /\ EarlyStop # "") =>
        /\ probes = <<>>
        /\ findings = <<Finding(EarlyStop, <<>>, <<>>, 0)>>

C25_Witness ==
    /\ DoctorRan /\ op = "doctor"
    /\ EarlyStop = "error_structure"
    /\ config.services.isMap /\ ClaimedAddrs # {}
    /\ probes = <<>>
    /\ findings = <<Finding("error_structure", <<>>, <<>>, 0)>>

\* the services that declare a port entry, read off the document
Declares(n, entry) ==
    /\ n \in DOMAIN config.services.val
    /\ config.services.val[n].isMap
    /\ config.services.val[n].ports.isList
    /\ StringEntry(entry) \in Range(config.services.val[n].ports.val)

\* C26: when one service maps host port 8080 without a bind address and
\* another maps it with the wildcard bind address 0.0.0.0, both entries
\* fall under one listen-address key and the report has an internal
\* conflict that names both services
C26_WildcardAndDefaultBindConflict ==
    TwoPhaseAnalysed =>
        \A n, o \in DOMAIN config.services.val :
            (/\ n # o
             /\ Declares(n, <<"8080", Colon, "80">>)
             /\ Declares(o, <<"0.0.0.0", Colon, "8080", Colon, "80">>)) =>
                \E k \in DOMAIN findings :
                    /\ findings[k].kind = "internal_conflict"
                    /\ {n, o} \subseteq Range(findings[k].services)

----------------------------------------------------------------------------
(* Further properties of the status report                                 *)

\* the records of the feed that name a service
RecordsOf(n) ==
    {i \in DOMAIN dockerStdout :
        dockerStdout[i].kind = "json" /\ dockerStdout[i].Service = n}

\* C27: a row is Running exactly if the feed has a parseable record that
\* names its service, whatever lifecycle state the record carries; the row
\* displays the state of the last such record
C27_RunningIffRecordNamesService ==
    PsReported =>
        \A r \in DOMAIN report :
            /\ report[r].status = "Running" <=> RecordsOf(report[r].service) # {}
            /\ report[r].status = "Running" =>
                   \E i \in RecordsOf(report[r].service) :
                       /\ \A j \in RecordsOf(report[r].service) : j <= i
                       /\ report[r].state = dockerStdout[i].State
                       /\ report[r].psService = report[r].service

C27_Witness ==
    /\ PsReported
    /\ \E r \in DOMAIN report :
           /\ report[r].status = "Running"
           /\ report[r].state = "exited"
           /\ \A i \in RecordsOf(report[r].service) : dockerStdout[i].State = "exited"
    /\ \E r \in DOMAIN report : report[r].status = "Not Running"
    /\ \E i \in DOMAIN dockerStdout : dockerStdout[i].kind = "garbage"

----------------------------------------------------------------------------
(* Further properties of the port analysis                                 *)

\* the number of colon-separated segments of a port-mapping string
Segments(str) == Cardinality({i \in DOMAIN str : str[i] = Colon}) + 1

\* the segments of a string of the universe, which has a colon at every
\* even position
Segment(str, k) == <<str[2 * k - 1]>>

\* the string port entries of a declared service, by position
StringEntries(n) ==
    IF config.services.val[n].isMap /\ config.services.val[n].ports.isList
    THEN {i \in DOMAIN config.services.val[n].ports.val :
              config.services.val[n].ports.val[i].isString}
    ELSE {}

EntryStr(n, i) == config.services.val[n].ports.val[i].str

\* a finding names the address for the service
Reports(kinds, addr, n) ==
    \E k \in DOMAIN findings :
        /\ findings[k].kind \in kinds
        /\ findings[k].addr = addr
        /\ n \in Range(findings[k].services)

\* C28: a port-mapping string with one or two segments and a numeric first
\* segment is grouped under the key ":" + first segment, one with three
\* segments and a numeric second segment under first + ":" + second, and
\* the key is reported as probed or as an internal conflict for the
\* service; a string with any other number of segments gets the format
\* warning; a single-segment entry of the only claimant of its key is probed
C28_SegmentsOfPortMapping ==
    DoctorAnalysed =>
        \A n \in DOMAIN config.services.val : \A i \in StringEntries(n) :
            LET str == EntryStr(n, i)
                key == IF Segments(str) = 3
                       THEN Segment(str, 1) \o <<Colon>> \o Segment(str, 2)
                       ELSE <<Colon>> \o Segment(str, 1)
            IN  IF Segments(str) \notin {1, 2, 3}
                THEN \E k \in DOMAIN findings :
                         findings[k] = Finding("warn_port_format", <<>>, <<n>>, i)
                ELSE Atoi(HostPortOf(key)).ok =>
                         /\ Reports(ProbeKinds \cup {"internal_conflict"}, key, n)
                         /\ (Segments(str) = 1 /\ Claimants(key) = {n}
                                 /\ ~ConflictReported(key)) =>
                                key \in Range(probes) /\ Reports(ProbeKinds, key, n)

C28_Witness ==
    /\ DoctorAnalysed
    /\ Declares("api", <<"8080">>)
    /\ Declares("db", <<"127.0.0.1", Colon, "8080", Colon, "80">>)
    /\ Declares("db", <<"1", Colon, "2", Colon, "3", Colon, "4">>)
    /\ probes = <<<<Colon, "8080">>, <<"127.0.0.1", Colon, "8080">>>>
    /\ Reports(ProbeKinds, <<Colon, "8080">>, "api")

----------------------------------------------------------------------------
(* Further properties of the signal handler and of failed synthesis        *)

\* C29: whenever the signal handler has handled a termination signal, at
\* any point after the start of the process, the progress indicator is
\* stopped and the process has exited with status 0
C29_SignalStopsIndicatorAndExitsZero ==
    Signalled =>
        /\ pc = "exited"
        /\ progress = "stopped"
        /\ exitCode = 0

\* C30: when createTempComposeFile has returned an error, no temporary
\* manifest file created by the call is on disk
C30_NoManifestLeftAfterFailedSynthesis ==
    (\E k \in DOMAIN out : out[k].kind = "error_temp_file") =>
        /\ tempComposePath = ""
        /\ files = {}

====
